---- MODULE Spec2Model ----
(***************************************************************************)
(* Front end of the Logo compiler: the symbol table (logoasm/symtable.py), *)
(* the loader (logovm/loader.py) and the lexer and parser                  *)
(* (compiler/compiler.py).                                                 *)
(*                                                                         *)
(* Python strings that the code inspects character by character (symbol    *)
(* names, instruction texts, source text) are sequences of one-character   *)
(* strings, so that upper(), startswith() and split() are computed.        *)
(* A dict is the sequence of its items in insertion order.                 *)
(***************************************************************************)
EXTENDS Integers, Sequences, FiniteSets, TLC

VARIABLES
    symtable,                   \* symtable.py: __symtable
    case_insensitive_symtable,  \* symtable.py: case_insensitive_symtable
    last,                       \* the last call: operation, symbol, outcome
    nops,                       \* number of calls made so far
    source,                     \* compiler.py: the text handed to the lexer
    lexpos,                     \* lexer position in source (1-based)
    lexlineno,                  \* t.lexer.lineno
    tokens,                     \* the tokens produced so far
    ast                         \* the result of parser.parse

symvars == <<symtable, case_insensitive_symtable, last, nops>>
frontvars == <<source, lexpos, lexlineno, tokens, ast>>
vars == <<symtable, case_insensitive_symtable, last, nops,
          source, lexpos, lexlineno, tokens, ast>>

\* ------------------------------------------------------------- bounds
MaxOps == 3
MaxLoadOps == 4
MaxCodeLen == 2
MaxSrcLen == 3

\* ------------------------------------------------------------ strings
LowerLetters ==
    <<"a","b","c","d","e","f","g","h","i","j","k","l","m",
      "n","o","p","q","r","s","t","u","v","w","x","y","z">>
UpperLetters ==
    <<"A","B","C","D","E","F","G","H","I","J","K","L","M",
      "N","O","P","Q","R","S","T","U","V","W","X","Y","Z">>
Digits == <<"0","1","2","3","4","5","6","7","8","9">>

Range(s) == {s[i] : i \in DOMAIN s}

IndexOf(s, c) == CHOOSE i \in DOMAIN s : s[i] = c

\* str.upper(), one character
upper_char(c) ==
    IF c \in Range(LowerLetters) THEN UpperLetters[IndexOf(LowerLetters, c)]
    ELSE c

\* str.upper()
upper(s) == [i \in DOMAIN s |-> upper_char(s[i])]

\* str.startswith(prefix)
startswith(s, prefix) ==
    /\ Len(s) >= Len(prefix)
    /\ SubSeq(s, 1, Len(prefix)) = prefix

\* str.split(sep, 1) for a one-character sep: at most one split
split1(s, sep) ==
    IF \E i \in DOMAIN s : s[i] = sep
    THEN LET i == CHOOSE j \in DOMAIN s :
                      s[j] = sep /\ \A k \in 1..(j - 1) : s[k] # sep
         IN <<SubSeq(s, 1, i - 1), SubSeq(s, i + 1, Len(s))>>
    ELSE <<s>>

\* --------------------------------------------------- values and errors
\* Python's None
None == [none |-> TRUE]

\* An exception that propagates to the caller: its class, the symbol its
\* message names (<<>> when none) and the line its message cites (-1 when none)
Exc(kind, name, line) == [kind |-> kind, name |-> name, line |-> line]

NoError == Exc("none", <<>>, -1)

\* super.__init__(msg): 'super' is the type, so this is the unbound slot
\* wrapper called with a str: TypeError("descriptor '__init__' requires a
\* 'super' object but received a 'str'")
super_init(msg) == Exc("TypeError", <<>>, -1)

\* symtable.py SymbolRedefinitionError.__init__: the message cites
\* symbol['lineno'], but construction itself raises in super.__init__
SymbolRedefinitionError(symbol, lineno, original) ==
    super_init(Exc("SymbolRedefinitionError", original, symbol["lineno"]))

\* symtable.py InternalError.__init__
InternalError(msg) == super_init(Exc("InternalError", msg, -1))

\* logovm/errors.py UndefinedReference(kind, symbol): names the symbol
UndefinedReference(kind, symbol) == Exc("UndefinedReference", symbol, -1)

\* the outcome of a call: the table it leaves, what it raised, what it returned
Return(tbl, ret) == [table |-> tbl, err |-> NoError, ret |-> ret]
Raise(tbl, exc) == [table |-> tbl, err |-> exc, ret |-> None]

\* ---------------------------------------------------------------- dict
dict_has(d, k) == \E i \in DOMAIN d : d[i].key = k

dict_index(d, k) == CHOOSE i \in DOMAIN d : d[i].key = k

\* dict.get(k): the value, or None
dict_get(d, k) == IF dict_has(d, k) THEN d[dict_index(d, k)].obj ELSE None

\* d[k] = v: in place for a known key, at the end for a new one
dict_set(d, k, v) ==
    IF dict_has(d, k)
    THEN [d EXCEPT ![dict_index(d, k)] = [key |-> k, obj |-> v]]
    ELSE Append(d, [key |-> k, obj |-> v])

\* del d[k]
dict_del(d, k) == SelectSeq(d, LAMBDA e : e.key # k)

\* obj.update(kwargs)
update(obj, kwargs) ==
    [a \in DOMAIN obj \cup DOMAIN kwargs |->
        IF a \in DOMAIN kwargs THEN kwargs[a] ELSE obj[a]]

\* obj.get(attr, default)
attr_get(obj, attr, default) == IF attr \in DOMAIN obj THEN obj[attr] ELSE default

\* truth value of dict.get's result: None and the empty dict are false
Truthy(obj) == obj # None /\ DOMAIN obj # {}

\* symbol.get("lineno") where symbol is the (translated) name, a str:
\* AttributeError("'str' object has no attribute 'get'")
str_get(s, attr) == Exc("AttributeError", <<>>, -1)

IsExc(v) == DOMAIN v = {"kind", "name", "line"}

\* --------------------------------------------------------- symtable.py
\* tr_symbol with the case policy left out
tr_symbol_as_given(symbol) == <<symbol, symbol>>

tr_symbol(symbol) ==
    <<IF case_insensitive_symtable THEN upper(symbol) ELSE symbol, symbol>>

add_symbol(tbl, symbol0, sym_type, kwargs) ==
    LET tr == tr_symbol(symbol0)
        symbol == tr[1]
        original == tr[2]
        obj == dict_get(tbl, symbol)
    IN  IF Truthy(obj)
        THEN LET lineno == str_get(symbol, "lineno")
             IN  IF IsExc(lineno) THEN Raise(tbl, lineno)
                 ELSE IF lineno >= 0
                 THEN Raise(tbl, SymbolRedefinitionError(obj, lineno, original))
                 ELSE Return(dict_set(tbl, symbol, update(obj, kwargs)), None)
        ELSE Return(dict_set(tbl, symbol,
                        update(kwargs, [name |-> symbol, type |-> sym_type])),
                    None)

\* set_symbol with the test of the stored lineno left out
set_symbol_any_lineno(tbl, symbol0, kwargs) ==
    LET tr == tr_symbol(symbol0)
        symbol == tr[1]
        original == tr[2]
        obj == dict_get(tbl, symbol)
    IN  IF obj = None
        THEN Raise(tbl, InternalError(original))
        ELSE IF "name" \in DOMAIN kwargs
        THEN Raise(tbl, InternalError(original))
        ELSE Return(dict_set(tbl, symbol, update(obj, kwargs)), None)

set_symbol(tbl, symbol0, kwargs) ==
    LET tr == tr_symbol(symbol0)
        symbol == tr[1]
        original == tr[2]
        obj == dict_get(tbl, symbol)
    IN  IF obj = None
        THEN Raise(tbl, InternalError(original))
        ELSE IF "name" \in DOMAIN kwargs
        THEN Raise(tbl, InternalError(original))
        ELSE IF "lineno" \in DOMAIN kwargs /\ ~(attr_get(obj, "lineno", -1) < 0)
        THEN Raise(tbl, InternalError(original))
        ELSE Return(dict_set(tbl, symbol, update(obj, kwargs)), None)

get_symbol(tbl, symbol) == dict_get(tbl, tr_symbol(symbol)[1])

get_symbols_by_class(tbl, symtype) ==
    SelectSeq(tbl, LAMBDA e : e.obj["type"] = symtype)

remove_symbol(tbl, symbol0) ==
    LET tr == tr_symbol(symbol0)
        symbol == tr[1]
        original == tr[2]
    IN  IF dict_has(tbl, symbol)
        THEN Return(dict_del(tbl, symbol), None)
        ELSE Raise(tbl, InternalError(original))

increment_symbol_usage(tbl, symbol, lineno, amount) ==
    LET sym == get_symbol(tbl, symbol)
    IN  IF sym = None
        THEN Raise(tbl, Exc("Exception", symbol, lineno))
        ELSE LET usage == attr_get(sym, "usage", 0) + amount
             IN  set_symbol(tbl, symbol, [usage |-> usage])

\* ----------------------------------------------------------- loader.py
Str_LABEL == <<"L","A","B","E","L">>

RECURSIVE loader_code(_, _, _)

\* loader_code counting addresses from one
loader_code_from_one(tbl, code, i) ==
    IF i > Len(code) THEN Return(tbl, None)
    ELSE LET cmd == code[i]
         IN  IF startswith(cmd, Str_LABEL)
             THEN LET parts == split1(cmd, " ")
                  IN  IF Len(parts) # 2
                      THEN Raise(tbl, Exc("ValueError", <<>>, -1))
                      ELSE LET r == set_symbol(tbl, parts[2], [pc |-> i])
                           IN  IF r.err # NoError THEN r
                               ELSE loader_code(r.table, code, i + 1)
             ELSE loader_code(tbl, code, i + 1)

\* for addr, cmd in enumerate(code): the instructions from index i on
\* (addr = i - 1)
loader_code(tbl, code, i) ==
    IF i > Len(code) THEN Return(tbl, None)
    ELSE LET cmd == code[i]
         IN  IF startswith(cmd, Str_LABEL)
             THEN LET parts == split1(cmd, " ")
                  IN  IF Len(parts) # 2
                      THEN Raise(tbl, Exc("ValueError", <<>>, -1))
                      ELSE LET r == set_symbol(tbl, parts[2], [pc |-> i - 1])
                           IN  IF r.err # NoError THEN r
                               ELSE loader_code(r.table, code, i + 1)
             ELSE loader_code(tbl, code, i + 1)

RECURSIVE loader_funcs(_, _, _)

\* loader_funcs passing over a procedure that has no code
loader_funcs_skipping(tbl, funcs, j) ==
    IF j > Len(funcs) THEN Return(tbl, None)
    ELSE LET symbol == funcs[j].key
             data == dict_get(tbl, symbol)
         IN  IF "code" \notin DOMAIN data
             THEN loader_funcs(tbl, funcs, j + 1)
             ELSE LET r == loader_code(tbl, data["code"], 1)
                  IN  IF r.err # NoError THEN r
                      ELSE loader_funcs(r.table, funcs, j + 1)

\* for symbol, data in get_symbols_by_class("FUNC").items(): from item j on
loader_funcs(tbl, funcs, j) ==
    IF j > Len(funcs) THEN Return(tbl, None)
    ELSE LET symbol == funcs[j].key
             data == dict_get(tbl, symbol)
         IN  IF "code" \notin DOMAIN data   \* data.get("code") is None
             THEN Raise(tbl, UndefinedReference("FUNCTION", symbol))
             ELSE LET r == loader_code(tbl, data["code"], 1)
                  IN  IF r.err # NoError THEN r
                      ELSE loader_funcs(r.table, funcs, j + 1)

loader(tbl) == loader_funcs(tbl, get_symbols_by_class(tbl, "FUNC"), 1)

\* ------------------------------------------------- inputs of the calls
s_f == <<"f">>
s_L1 == <<"L","1">>
s_l1 == <<"l","1">>

\* names that differ only in letter case
CaseNames == {s_L1, s_l1}

\* the symbol classes
Types == {"FUNC", "LABEL"}

\* instruction texts as the code generator emits them
LabelInstr(name) == Str_LABEL \o <<" ">> \o name
PushInstr == <<"P","U","S","H"," ","1">>
\* a text that begins with LABEL without being 'LABEL <name>'
LabelsInstr == <<"L","A","B","E","L","S"," ","L","1">>
\* the marker alone, without a name
BareLabelInstr == Str_LABEL
Instrs ==
    {LabelInstr(s_L1), LabelInstr(s_l1), PushInstr, LabelsInstr, BareLabelInstr}

\* instruction sequences of up to n instructions
CodesUpTo(n) == UNION {[1..k -> Instrs] : k \in 0..n}

\* line numbers: the forward-reference sentinel and real lines
LineNos == {-1, 0, 5, 7}

\* keyword arguments of add_symbol: none, or a line number
AddKwargs == {<<>>} \cup {[lineno |-> l] : l \in LineNos}

\* keyword arguments of set_symbol
SetKwargs ==
    AddKwargs \cup {[usage |-> 0], [type |-> "LABEL"], [name |-> s_f],
                    [code |-> <<LabelInstr(s_L1)>>]}

\* amounts of increment_symbol_usage: the default 1, and a negative one
Amounts == {1, -1}

\* what code generation declares: procedures f and L1, labels L1 and l1
Declared ==
    {<<s_f, "FUNC">>, <<s_L1, "FUNC">>, <<s_L1, "LABEL">>, <<s_l1, "LABEL">>}

\* what the code generator assigns: any short code to procedure f, and a
\* code of at most one instruction to L1
CodeInputs ==
    ({s_f} \X {[code |-> c] : c \in CodesUpTo(MaxCodeLen)})
        \cup ({s_L1} \X {[code |-> c] : c \in CodesUpTo(1)})

\* ------------------------------------------------------------- actions
\* a call returned or raised: its outcome becomes the state
Called(op, symbol, kwargs, r) ==
    /\ nops' = nops + 1
    /\ symtable' = r.table
    /\ last' = [op |-> op, symbol |-> symbol, kwargs |-> kwargs,
                err |-> r.err, ret |-> r.ret]
    /\ UNCHANGED <<case_insensitive_symtable, source, lexpos, lexlineno, tokens, ast>>

AddSymbol(bound, symbol, sym_type, kwargs) ==
    /\ nops < bound
    /\ Called("add_symbol", symbol, kwargs,
              add_symbol(symtable, symbol, sym_type, kwargs))

SetSymbol(bound, symbol, kwargs) ==
    /\ nops < bound
    /\ Called("set_symbol", symbol, kwargs, set_symbol(symtable, symbol, kwargs))

GetSymbol(bound, symbol) ==
    /\ nops < bound
    /\ Called("get_symbol", symbol, <<>>,
              Return(symtable, get_symbol(symtable, symbol)))

RemoveSymbol(bound, symbol) ==
    /\ nops < bound
    /\ Called("remove_symbol", symbol, <<>>, remove_symbol(symtable, symbol))

IncrementSymbolUsage(bound, symbol, lineno, amount) ==
    /\ nops < bound
    /\ Called("increment_symbol_usage", symbol, <<>>,
              increment_symbol_usage(symtable, symbol, lineno, amount))

Loader(bound) ==
    /\ nops < bound
    /\ Called("loader", <<>>, <<>>, loader(symtable))

NoCall == [op |-> "none", symbol |-> <<>>, kwargs |-> <<>>,
           err |-> NoError, ret |-> None]

\* the module as imported (the table empty), with the case policy configured
SymInit ==
    /\ symtable = <<>>
    /\ case_insensitive_symtable \in BOOLEAN
    /\ last = NoCall
    /\ nops = 0

FrontIdle ==
    /\ source = <<>>
    /\ lexpos = 1
    /\ lexlineno = 1
    /\ tokens = <<>>
    /\ ast = None

Init == SymInit /\ FrontIdle

\* the symbol table under any calls
Next ==
    \/ \E symbol \in CaseNames, t \in Types, kw \in AddKwargs :
           AddSymbol(MaxOps, symbol, t, kw)
    \/ \E symbol \in CaseNames, kw \in SetKwargs : SetSymbol(MaxOps, symbol, kw)
    \/ \E symbol \in CaseNames : GetSymbol(MaxOps, symbol)
    \/ \E symbol \in CaseNames : RemoveSymbol(MaxOps, symbol)
    \/ \E symbol \in CaseNames, amount \in Amounts :
           IncrementSymbolUsage(MaxOps, symbol, 5, amount)
    \/ Loader(MaxOps)

Spec == Init /\ [][Next]_vars

\* declaration, code generation and loading
NextLoad ==
    \/ \E d \in Declared : AddSymbol(MaxLoadOps, d[1], d[2], <<>>)
    \/ \E in \in CodeInputs : SetSymbol(MaxLoadOps, in[1], in[2])
    \/ Loader(MaxLoadOps)

SpecLoad == Init /\ [][NextLoad]_vars


\* ========================================================= compiler.py
\* --------------------------------------------------------------- lexer
Letters == Range(LowerLetters) \cup Range(UpperLetters)
DigitChars == Range(Digits)
IdStart == Letters \cup {"_"}
IdChars == Letters \cup DigitChars \cup {"_"}

\* t_ignore = ' \t'
t_ignore == {" ", "\t"}

\* the rules given as strings: t_COLON ... t_RPAREN
simple_rules ==
    (":" :> "COLON") @@ ("+" :> "PLUS") @@ ("-" :> "MINUS") @@
    ("*" :> "TIMES") @@ ("/" :> "DIVIDE") @@ ("(" :> "LPAREN") @@
    (")" :> "RPAREN")

reserved ==
    (<<"i","f">> :> "IF") @@
    (<<"t","h","e","n">> :> "THEN") @@
    (<<"e","l","s","e">> :> "ELSE") @@
    (<<"e","n","d">> :> "END") @@
    (<<"w","h","i","l","e">> :> "WHILE") @@
    (<<"n","o","t">> :> "NOT") @@
    (<<"t","o">> :> "TO") @@
    (<<"a","n","d">> :> "AND") @@
    (<<"o","r">> :> "OR") @@
    (<<"s","e","t">> :> "SET")

\* reserved.get(key, default)
reserved_get(key, default) ==
    IF key \in DOMAIN reserved THEN reserved[key] ELSE default

\* the end of the longest match of chars+ starting at i
MatchEnd(s, i, chars) ==
    CHOOSE j \in i..Len(s) :
        /\ \A k \in i..j : s[k] \in chars
        /\ j = Len(s) \/ s[j + 1] \notin chars

RECURSIVE int(_)
\* int(text) of a run of decimal digits
int(text) ==
    IF text = <<>> THEN 0
    ELSE int(SubSeq(text, 1, Len(text) - 1)) * 10
            + (IndexOf(Digits, text[Len(text)]) - 1)

Token(type, value) ==
    [type |-> type, value |-> value, lineno |-> lexlineno, lexpos |-> lexpos]

Lexing == lexpos <= Len(source)

\* a rule matched source[lexpos..j]: the token it returns, if any
Lexed(j, toks, lineno) ==
    /\ lexpos' = j + 1
    /\ tokens' = tokens \o toks
    /\ lexlineno' = lineno
    /\ UNCHANGED <<source, ast, symtable, case_insensitive_symtable, last, nops>>

\* characters of t_ignore are skipped before any rule is tried
T_ignore ==
    /\ Lexing
    /\ source[lexpos] \in t_ignore
    /\ Lexed(lexpos, <<>>, lexlineno)

\* r'\d+'
t_NUMBER(text) == Token("NUMBER", int(text))

T_NUMBER ==
    /\ Lexing
    /\ source[lexpos] \in DigitChars
    /\ LET j == MatchEnd(source, lexpos, DigitChars)
       IN  Lexed(j, <<t_NUMBER(SubSeq(source, lexpos, j))>>, lexlineno)

\* r'[a-zA-Z_][a-zA-Z0-9_]*'
t_ID(text) == Token(reserved_get(upper(text), "ID"), text)

T_ID ==
    /\ Lexing
    /\ source[lexpos] \in IdStart
    /\ LET j == MatchEnd(source, lexpos, IdChars)
       IN  Lexed(j, <<t_ID(SubSeq(source, lexpos, j))>>, lexlineno)

\* r'\n+': no token, the line counter advances
T_ignore_newline ==
    /\ Lexing
    /\ source[lexpos] = "\n"
    /\ LET j == MatchEnd(source, lexpos, {"\n"})
       IN  Lexed(j, <<>>, lexlineno + (j - lexpos + 1))

\* t_COLON, t_PLUS, t_MINUS, t_TIMES, t_DIVIDE, t_LPAREN, t_RPAREN
T_simple ==
    /\ Lexing
    /\ source[lexpos] \in DOMAIN simple_rules
    /\ Lexed(lexpos,
             <<Token(simple_rules[source[lexpos]], <<source[lexpos]>>)>>,
             lexlineno)

\* no rule matches: reported, one character skipped
T_error ==
    /\ Lexing
    /\ source[lexpos] \notin
           t_ignore \cup DigitChars \cup IdStart \cup {"\n"} \cup DOMAIN simple_rules
    /\ Lexed(lexpos, <<>>, lexlineno)

\* -------------------------------------------------------------- parser
\* A Python list is [list |-> <<...>>], a tuple is a tuple, a dict a record.
PyList(s) == [list |-> s]

new_node(name, children) == [name |-> name, children |-> children]

new_leaf(name, value) == [name |-> name, value |-> value]

\* The semantic actions: p is p[1..] of the production that is reduced
\* (len(p) in the code counts p[0] too).
p_program(p) == new_node("Program", <<p[1]>>)

p_statements(p) ==
    IF Len(p) + 1 > 2
    THEN IF p[2] = None THEN PyList(<<p[1]>>)
         ELSE PyList(<<p[1]>> \o p[2].list)
    ELSE None

p_statement(p) == new_leaf("Statement", <<p[1]>>)

p_call_func(p) == new_leaf("Call function", <<p[1], p[2]>>)

p_declare_func(p) == new_leaf("Declare function", <<p[1], p[2], p[3], p[4]>>)

p_number(p) == <<"number", p[1]>>

p_id(p) == <<"Identifier", p[1]>>

p_func_params(p) ==
    IF Len(p) + 1 > 2
    THEN IF p[2] = None THEN PyList(<<p[1]>>)
         ELSE PyList(<<p[1]>> \o p[2].list)
    ELSE None

p_func_param(p) ==
    IF Len(p) + 1 > 2 THEN <<"Parameter", p[2]>> ELSE <<"Parameter", p[1]>>

p_if(p) == new_leaf("IF", <<p[2], p[4]>>)

p_if_else(p) == new_leaf("IF ELSE", <<p[2], p[4], p[6]>>)

p_while(p) == new_leaf("WHILE", <<p[2], p[3]>>)

p_factor_unary(p) == new_leaf("MATH EXPRESSION", <<p[1], p[2]>>)

p_factor_grouped(p) == new_leaf("MATH EXPRESSION", <<p[2]>>)

p_expression(p) == new_leaf("MATH EXPRESSION", <<p[2], p[1], p[3]>>)

p_expression_term(p) == p[1]

p_term(p) == new_leaf("MATH EXPRESSION", <<p[2], p[1], p[3]>>)

p_term_factor(p) == p[1]

p_factor_number(p) == new_leaf("Number", <<p[1]>>)

\* p_error(p): the parse is abandoned at token number pos
p_error(pos) == [name |-> "Syntax error", at |-> pos]

\* The parser yacc() builds from the productions: LALR(1), a shift preferred
\* to a reduction where both apply. Each operator parses one nonterminal
\* from token number i on and gives the value its action builds and the
\* number of the next token.
Ok(val, pos) == [ok |-> TRUE, val |-> val, pos |-> pos]
Fail(pos) == [ok |-> FALSE, val |-> None, pos |-> pos]

LA(toks, i) == IF i <= Len(toks) THEN toks[i].type ELSE "$end"

\* F applied to the value of v, which is computed once
With(v, F(_)) == CHOOSE r \in {F(x) : x \in {v}} : TRUE

FirstExpression == {"NUMBER", "LPAREN", "PLUS", "MINUS"}
FirstStatement == {"TO", "ID", "IF", "WHILE"} \cup FirstExpression

RECURSIVE parse_statements(_, _)
RECURSIVE parse_statement(_, _)
RECURSIVE parse_func_params(_, _)
RECURSIVE parse_expression(_, _)
RECURSIVE parse_term(_, _)
RECURSIVE parse_factor(_, _)

\* func_param : COLON id | number
parse_func_param(toks, i) ==
    IF LA(toks, i) = "COLON"
    THEN IF LA(toks, i + 1) = "ID"
         THEN Ok(p_func_param(<<toks[i].value, p_id(<<toks[i + 1].value>>)>>), i + 2)
         ELSE Fail(i + 1)
    ELSE Ok(p_func_param(<<p_number(<<toks[i].value>>)>>), i + 1)

\* func_params : | func_param func_params
parse_func_params(toks, i) ==
    IF LA(toks, i) \in {"COLON", "NUMBER"}
    THEN With(parse_func_param(toks, i), LAMBDA a :
         IF ~a.ok THEN a
         ELSE With(parse_func_params(toks, a.pos), LAMBDA b :
              IF ~b.ok THEN b
              ELSE Ok(p_func_params(<<a.val, b.val>>), b.pos)))
    ELSE Ok(p_func_params(<<>>), i)

\* factor : NUMBER | LPAREN expression RPAREN | PLUS factor | MINUS factor
parse_factor(toks, i) ==
    IF LA(toks, i) = "NUMBER"
    THEN Ok(p_factor_number(<<toks[i].value>>), i + 1)
    ELSE IF LA(toks, i) = "LPAREN"
    THEN With(parse_expression(toks, i + 1), LAMBDA e :
         IF ~e.ok THEN e
         ELSE IF LA(toks, e.pos) # "RPAREN" THEN Fail(e.pos)
         ELSE Ok(p_factor_grouped(<<toks[i].value, e.val, toks[e.pos].value>>),
                 e.pos + 1))
    ELSE IF LA(toks, i) \in {"PLUS", "MINUS"}
    THEN With(parse_factor(toks, i + 1), LAMBDA f :
         IF ~f.ok THEN f
         ELSE Ok(p_factor_unary(<<toks[i].value, f.val>>), f.pos))
    ELSE Fail(i)

\* term : factor TIMES factor | factor DIVIDE factor | factor
parse_term(toks, i) ==
    With(parse_factor(toks, i), LAMBDA a :
    IF ~a.ok THEN a
    ELSE IF LA(toks, a.pos) \in {"TIMES", "DIVIDE"}
    THEN With(parse_factor(toks, a.pos + 1), LAMBDA b :
         IF ~b.ok THEN b
         ELSE Ok(p_term(<<a.val, toks[a.pos].value, b.val>>), b.pos))
    ELSE Ok(p_term_factor(<<a.val>>), a.pos))

\* expression : term PLUS term | term MINUS term | term
parse_expression(toks, i) ==
    With(parse_term(toks, i), LAMBDA a :
    IF ~a.ok THEN a
    ELSE IF LA(toks, a.pos) \in {"PLUS", "MINUS"}
    THEN With(parse_term(toks, a.pos + 1), LAMBDA b :
         IF ~b.ok THEN b
         ELSE Ok(p_expression(<<a.val, toks[a.pos].value, b.val>>), b.pos))
    ELSE Ok(p_expression_term(<<a.val>>), a.pos))

\* call_func : ID func_params
parse_call_func(toks, i) ==
    With(parse_func_params(toks, i + 1), LAMBDA a :
    IF ~a.ok THEN a
    ELSE Ok(p_call_func(<<toks[i].value, a.val>>), a.pos))

\* declare_func : TO ID func_params statements END
parse_declare_func(toks, i) ==
    IF LA(toks, i + 1) # "ID" THEN Fail(i + 1)
    ELSE With(parse_func_params(toks, i + 2), LAMBDA a :
         IF ~a.ok THEN a
         ELSE With(parse_statements(toks, a.pos), LAMBDA b :
              IF ~b.ok THEN b
              ELSE IF LA(toks, b.pos) # "END" THEN Fail(b.pos)
              ELSE Ok(p_declare_func(<<toks[i].value, toks[i + 1].value,
                                       a.val, b.val, toks[b.pos].value>>),
                      b.pos + 1)))

\* if : IF ID THEN statements END
\* if_else : IF ID THEN statements ELSE statements END
parse_if(toks, i) ==
    IF LA(toks, i + 1) # "ID" THEN Fail(i + 1)
    ELSE IF LA(toks, i + 2) # "THEN" THEN Fail(i + 2)
    ELSE With(parse_statements(toks, i + 3), LAMBDA a :
         IF ~a.ok THEN a
         ELSE IF LA(toks, a.pos) = "END"
         THEN Ok(p_if(<<toks[i].value, toks[i + 1].value, toks[i + 2].value,
                        a.val, toks[a.pos].value>>),
                 a.pos + 1)
         ELSE IF LA(toks, a.pos) = "ELSE"
         THEN With(parse_statements(toks, a.pos + 1), LAMBDA b :
              IF ~b.ok THEN b
              ELSE IF LA(toks, b.pos) # "END" THEN Fail(b.pos)
              ELSE Ok(p_if_else(<<toks[i].value, toks[i + 1].value,
                                  toks[i + 2].value, a.val,
                                  toks[a.pos].value, b.val,
                                  toks[b.pos].value>>),
                      b.pos + 1))
         ELSE Fail(a.pos))

\* while : WHILE ID statements END
parse_while(toks, i) ==
    IF LA(toks, i + 1) # "ID" THEN Fail(i + 1)
    ELSE With(parse_statements(toks, i + 2), LAMBDA a :
         IF ~a.ok THEN a
         ELSE IF LA(toks, a.pos) # "END" THEN Fail(a.pos)
         ELSE Ok(p_while(<<toks[i].value, toks[i + 1].value, a.val,
                           toks[a.pos].value>>),
                 a.pos + 1))

\* statement : declare_func | call_func | if | if_else | while | expression
parse_statement(toks, i) ==
    With(IF LA(toks, i) = "TO" THEN parse_declare_func(toks, i)
         ELSE IF LA(toks, i) = "ID" THEN parse_call_func(toks, i)
         ELSE IF LA(toks, i) = "IF" THEN parse_if(toks, i)
         ELSE IF LA(toks, i) = "WHILE" THEN parse_while(toks, i)
         ELSE parse_expression(toks, i),
         LAMBDA a : IF ~a.ok THEN a ELSE Ok(p_statement(<<a.val>>), a.pos))

\* statements : statement statements |
parse_statements(toks, i) ==
    IF LA(toks, i) \in FirstStatement
    THEN With(parse_statement(toks, i), LAMBDA a :
         IF ~a.ok THEN a
         ELSE With(parse_statements(toks, a.pos), LAMBDA b :
              IF ~b.ok THEN b
              ELSE Ok(p_statements(<<a.val, b.val>>), b.pos)))
    ELSE Ok(p_statements(<<>>), i)

\* program : statements, then the end of the input
parse(toks) ==
    With(parse_statements(toks, 1), LAMBDA a :
    IF a.ok /\ a.pos = Len(toks) + 1 THEN p_program(<<a.val>>)
    ELSE p_error(a.pos))

\* parser.parse(expression): the lexer has delivered every token
Parse ==
    /\ ~Lexing
    /\ ast = None
    /\ ast' = parse(tokens)
    /\ UNCHANGED <<source, lexpos, lexlineno, tokens,
                   symtable, case_insensitive_symtable, last, nops>>

\* ------------------------------------------------------ source texts
\* the text compiler.py parses
expression ==
    <<"\n"," "," "," "," ","T","O"," ","V","1"," ",":","l","e","n","g","t",
      "h","\n"," "," "," "," ","E","N","D","\n"," "," "," "," ","V","1"," ",
      "8","0","\n"," "," "," "," ","I","F"," ","X"," ","T","H","E","N"," ",
      "V","1"," ","8","0"," ","E","N","D","\n"," "," "," "," ","3"," ","+",
      " ","2","\n">>

\* the same program in lower case on four lines
SpecSample ==
    <<"t","o"," ","v","1"," ",":","l","e","n","g","t","h"," ","e","n","d",
      "\n","v","1"," ","8","0","\n","i","f"," ","x"," ","t","h","e","n"," ",
      "v","1"," ","8","0"," ","e","n","d","\n","3"," ","+"," ","2","\n">>

\* a text with every operator, a tab and a character no rule matches
OperatorSample ==
    <<"f"," ","(","1"," ","*"," ","2",")"," ","-"," ","3"," ","/"," ","4",
      " ","?","\n","-","(","5",")","\t","+"," ","6">>

\* a text with a loop and an expression of mixed precedence
WhileSample ==
    <<"w","h","i","l","e"," ","x","\n"," "," ","v","1"," ",":","a"," ","2",
      "\n","e","n","d","\n","1"," ","+"," ","2"," ","*"," ","3">>

ParseSources == {expression, SpecSample, OperatorSample, WhileSample}

\* short texts over the characters that decide how a word is classified
LexAlphabet == {"i", "f", "I", "F", "x", "_", "1", " ", "\n", "+", "?"}
ShortTexts == UNION {[1..n -> LexAlphabet] : n \in 0..MaxSrcLen}

\* every reserved word in lower case, in upper case and capitalised
Capitalised(w) == [i \in DOMAIN w |-> IF i = 1 THEN upper_char(w[i]) ELSE w[i]]
ReservedTexts ==
    UNION {{w, upper(w), Capitalised(w)} : w \in DOMAIN reserved}

LexSources == ShortTexts \cup ReservedTexts \cup {OperatorSample}

SymIdle ==
    /\ symtable = <<>>
    /\ case_insensitive_symtable = FALSE
    /\ last = NoCall
    /\ nops = 0

FrontInit(sources) ==
    /\ source \in sources
    /\ lexpos = 1
    /\ lexlineno = 1
    /\ tokens = <<>>
    /\ ast = None

NextLex ==
    \/ T_ignore
    \/ T_NUMBER
    \/ T_ID
    \/ T_ignore_newline
    \/ T_simple
    \/ T_error

InitLex == SymIdle /\ FrontInit(LexSources)

SpecLex == InitLex /\ [][NextLex]_vars

NextParse == NextLex \/ Parse

InitParse == SymIdle /\ FrontInit(ParseSources)

SpecParse == InitParse /\ [][NextParse]_vars


\* ========================================================== properties
\* ------------------------------------------- symbol table (Spec)
\* the usage counter of an entry, 0 while it was never counted
UsageOf(obj) == attr_get(obj, "usage", 0)

\* the entry holds a real line number
HasRealLine(obj) == "lineno" \in DOMAIN obj /\ obj["lineno"] >= 0

\* the entry at position i before the step is the entry at j after it
SameEntry(i, j) == symtable[i].key = symtable'[j].key

\* C1: add_symbol on a name that already has an entry fails with a
\* redefinition error citing the stored line when that line is real, and
\* otherwise succeeds and merges the new attrs into the entry.
C1_AddExistingSymbol ==
    [][\A symbol \in CaseNames, t \in Types, kw \in AddKwargs :
        (AddSymbol(MaxOps, symbol, t, kw) /\ get_symbol(symtable, symbol) # None)
        => LET obj == get_symbol(symtable, symbol)
           IN  IF HasRealLine(obj)
               THEN /\ last'.err.kind = "SymbolRedefinitionError"
                    /\ last'.err.line = obj["lineno"]
                    /\ symtable' = symtable
               ELSE /\ last'.err = NoError
                    /\ get_symbol(symtable', symbol) = update(obj, kw)]_vars

\* C4: set_symbol fails with an internal error and leaves the table unchanged
\* when the symbol is unknown, attrs contains name, or attrs contains lineno
\* while the stored lineno is real; in every other case it succeeds and the
\* entry is updated with attrs.
C4_SetSymbolContract ==
    [][\A symbol \in CaseNames, kw \in SetKwargs :
        SetSymbol(MaxOps, symbol, kw)
        => LET obj == get_symbol(symtable, symbol)
           IN  IF \/ obj = None
                  \/ "name" \in DOMAIN kw
                  \/ ("lineno" \in DOMAIN kw /\ HasRealLine(obj))
               THEN /\ last'.err.kind = "InternalError"
                    /\ symtable' = symtable
               ELSE /\ last'.err = NoError
                    /\ get_symbol(symtable', symbol) = update(obj, kw)]_vars

\* C5: while an entry stays in the table, its name and its type keep the
\* values they were created with, whatever call is made.
C5_NameAndTypeFixed ==
    [][\A i \in DOMAIN symtable, j \in DOMAIN symtable' :
        SameEntry(i, j)
        => /\ symtable'[j].obj["name"] = symtable[i].obj["name"]
           /\ symtable'[j].obj["type"] = symtable[i].obj["type"]]_vars

\* C6: once an entry's lineno is a real line, no call changes it while the
\* entry stays in the table, and every add_symbol or set_symbol call that
\* gives a lineno for that entry is rejected and leaves the table as it was.
C6_LinenoWrittenOnce ==
    [][/\ \A i \in DOMAIN symtable, j \in DOMAIN symtable' :
            (SameEntry(i, j) /\ HasRealLine(symtable[i].obj))
            => /\ "lineno" \in DOMAIN symtable'[j].obj
               /\ symtable'[j].obj["lineno"] = symtable[i].obj["lineno"]
       /\ \A symbol \in CaseNames, t \in Types, kw \in SetKwargs :
            (/\ "lineno" \in DOMAIN kw
             /\ get_symbol(symtable, symbol) # None
             /\ HasRealLine(get_symbol(symtable, symbol))
             /\ \/ AddSymbol(MaxOps, symbol, t, kw)
                \/ SetSymbol(MaxOps, symbol, kw))
            => /\ last'.err # NoError
               /\ symtable' = symtable]_vars

\* an entry with a real line, and a set_symbol call with another line for it
\* that was rejected
C6_Witness ==
    /\ last.op = "set_symbol"
    /\ "lineno" \in DOMAIN last.kwargs
    /\ last.err # NoError
    /\ get_symbol(symtable, last.symbol) # None
    /\ HasRealLine(get_symbol(symtable, last.symbol))
    /\ get_symbol(symtable, last.symbol)["lineno"] # last.kwargs["lineno"]

\* C7: while an entry stays in the table, no call leaves its usage counter
\* smaller than before, and the counter is never negative.
C7_UsageOnlyIncreases ==
    [][\A i \in DOMAIN symtable, j \in DOMAIN symtable' :
        SameEntry(i, j)
        => /\ UsageOf(symtable'[j].obj) >= UsageOf(symtable[i].obj)
           /\ UsageOf(symtable'[j].obj) >= 0]_vars

\* two characters that are equal, or the two cases of one letter
SameLetter(c, d) ==
    \/ c = d
    \/ \E k \in DOMAIN LowerLetters :
           {c, d} = {LowerLetters[k], UpperLetters[k]}

\* two names that differ at most in letter case
SameIgnoringCase(a, b) ==
    /\ Len(a) = Len(b)
    /\ \A k \in DOMAIN a : SameLetter(a[k], b[k])

\* what the case policy makes of two names: the same symbol or not
Denotes(a, b) ==
    IF case_insensitive_symtable THEN SameIgnoringCase(a, b) ELSE a = b

\* the entries that a name denotes
Denoted(tbl, symbol) ==
    {i \in DOMAIN tbl : Denotes(tbl[i].obj["name"], symbol)}

\* what the case policy means for the table and for a lookup
C10_State ==
    /\ \A a, b \in CaseNames :
           Denotes(a, b) => get_symbol(symtable, a) = get_symbol(symtable, b)
    /\ \A a \in CaseNames :
           get_symbol(symtable, a) # None
           => Denotes(get_symbol(symtable, a)["name"], a)
    /\ \A i \in DOMAIN symtable :
           \E a \in CaseNames : get_symbol(symtable, a) = symtable[i].obj
    /\ last.op = "get_symbol"
       => IF Denoted(symtable, last.symbol) = {} THEN last.ret = None
          ELSE \E i \in Denoted(symtable, last.symbol) :
                   last.ret = symtable[i].obj

\* what the case policy means for a call
C10_Step ==
    /\ last'.op \in {"add_symbol", "set_symbol", "get_symbol",
                     "remove_symbol", "increment_symbol_usage"}
       => \A i \in DOMAIN symtable \ Denoted(symtable, last'.symbol) :
              \E j \in DOMAIN symtable' : symtable'[j] = symtable[i]
    /\ (last'.op \in {"remove_symbol", "increment_symbol_usage"}
        \/ (last'.op = "set_symbol" /\ last'.kwargs = <<>>))
       => (last'.err = NoError <=> Denoted(symtable, last'.symbol) # {})
    /\ last'.op = "remove_symbol" /\ last'.err = NoError
       => Denoted(symtable', last'.symbol) = {}
    /\ last'.op = "add_symbol" /\ Denoted(symtable, last'.symbol) = {}
       => Denoted(symtable', last'.symbol) # {}

\* C10: every call applies the case policy to its name. With the policy on,
\* names that differ only in case reach the same entry; with it off, a name
\* reaches only the entry of exactly that name. A lookup returns the entry
\* its name denotes, or nothing; a call that is not a loader run touches
\* no entry but the one its name denotes; and set_symbol, remove_symbol and
\* increment_symbol_usage find their symbol exactly when such an entry exists.
C10_CasePolicy == [](C10_State) /\ [][C10_Step]_vars

\* with the policy on, a lookup by a lower-case name returned the entry that
\* is stored under the upper-case name
C10_Witness ==
    /\ case_insensitive_symtable
    /\ last.op = "get_symbol"
    /\ last.symbol = s_l1
    /\ last.ret # None
    /\ last.ret["name"] = s_L1

\* ------------------------------------------------------ loader (SpecLoad)
\* the instructions the loader reads as a label: <<i, a>> is instruction
\* number a of the code of the FUNC entry at position i
LabelSites ==
    {s \in (DOMAIN symtable) \X (1..(MaxCodeLen + 1)) :
        /\ symtable[s[1]].obj["type"] = "FUNC"
        /\ "code" \in DOMAIN symtable[s[1]].obj
        /\ s[2] \in DOMAIN symtable[s[1]].obj["code"]
        /\ startswith(symtable[s[1]].obj["code"][s[2]], Str_LABEL)}

\* the label instruction gives a name after the marker
Named(s) == Len(split1(symtable[s[1]].obj["code"][s[2]], " ")) = 2

\* the name a label instruction gives
SiteName(s) == split1(symtable[s[1]].obj["code"][s[2]], " ")[2]

\* the label of site s has the address of s as its pc
Resolved(s) ==
    /\ Named(s)
    /\ get_symbol(symtable, SiteName(s)) # None
    /\ "pc" \in DOMAIN get_symbol(symtable, SiteName(s))
    /\ get_symbol(symtable, SiteName(s))["pc"] = s[2] - 1

LoaderCompleted == last.op = "loader" /\ last.err = NoError

\* C2 as stated: after loader() completes, every label whose name is given by
\* only one LABEL instruction over all FUNC code has that instruction's index
\* as its pc.
C2_LabelPcByName ==
    LoaderCompleted
    => \A s \in LabelSites :
           (\A u \in LabelSites : SiteName(u) = SiteName(s) => u = s)
           => Resolved(s)

\* C2 as amended: after loader() completes, every label that only one LABEL
\* instruction over all FUNC code denotes, names compared after the case
\* policy is applied, has that instruction's index as its pc.
C2_LabelPc ==
    LoaderCompleted
    => \A s \in LabelSites :
           (\A u \in LabelSites : Denotes(SiteName(u), SiteName(s)) => u = s)
           => Resolved(s)

\* loader() completed on a procedure whose code holds a label, resolved to a
\* pc other than 0, after an instruction that is not a label
C2_Witness ==
    /\ LoaderCompleted
    /\ \E s \in LabelSites :
           /\ s[2] > 1
           /\ <<s[1], s[2] - 1>> \notin LabelSites
           /\ \A u \in LabelSites : Denotes(SiteName(u), SiteName(s)) => u = s
           /\ Resolved(s)

\* the FUNC entries without code
Codeless ==
    {i \in DOMAIN symtable :
        /\ symtable[i].obj["type"] = "FUNC"
        /\ "code" \notin DOMAIN symtable[i].obj}

FirstCodeless == CHOOSE i \in Codeless : \A k \in Codeless : i <= k

\* C3 as stated: with a FUNC symbol that has no code in the table, loader()
\* fails with an undefined-reference error naming such a function.
C3_UndefinedReference ==
    (last.op = "loader" /\ Codeless # {})
    => /\ last.err.kind = "UndefinedReference"
       /\ \E i \in Codeless : last.err.name = symtable[i].key

\* C3 as amended: with a FUNC symbol that has no code in the table, loader()
\* does not complete; it fails with an undefined-reference error naming the
\* first such function in table order, unless the code of a FUNC symbol
\* before it has a label instruction that gives no name or names no symbol.
C3_LoaderFailsOnCodeless ==
    (last.op = "loader" /\ Codeless # {})
    => /\ last.err # NoError
       /\ (\A s \in LabelSites :
               s[1] < FirstCodeless
               => Named(s) /\ get_symbol(symtable, SiteName(s)) # None)
          => /\ last.err.kind = "UndefinedReference"
             /\ last.err.name = symtable[FirstCodeless].key

\* loader() went through the labels of one procedure, then met a procedure
\* without code and failed naming it
C3_Witness ==
    /\ last.op = "loader"
    /\ Codeless # {}
    /\ \E s \in LabelSites : s[1] < FirstCodeless /\ Resolved(s)
    /\ last.err.kind = "UndefinedReference"
    /\ last.err.name = symtable[FirstCodeless].key

\* ------------------------------------------------------ lexer (SpecLex)
lower_char(c) ==
    IF c \in Range(UpperLetters) THEN LowerLetters[IndexOf(UpperLetters, c)]
    ELSE c

lower(s) == [i \in DOMAIN s |-> lower_char(s[i])]

\* the token is a run of letters, digits and underscores
IsWord(tok) == tok.type # "NUMBER" /\ tok.value[1] \in IdStart

\* C9: a run that starts with a letter or underscore is an identifier, unless
\* it equals a reserved word when case is ignored, and then it is that
\* reserved word's token; the run is maximal.
C9_ReservedWords ==
    \A k \in DOMAIN tokens :
        IsWord(tokens[k])
        => /\ tokens[k].type =
                  IF lower(tokens[k].value) \in DOMAIN reserved
                  THEN reserved[lower(tokens[k].value)]
                  ELSE "ID"
           /\ LET next == tokens[k].lexpos + Len(tokens[k].value)
              IN  next <= Len(source) => source[next] \notin IdChars

\* ----------------------------------------------------- parser (SpecParse)
\* the statement kinds of a Program node, in order
StatementKinds(program) ==
    [k \in DOMAIN program.children[1].list |->
        program.children[1].list[k].value[1].name]

Word_v1 == <<"v","1">>
Word_x == <<"x">>
Word_length == <<"l","e","n","g","t","h">>

CallV1 ==
    new_leaf("Call function",
             <<Word_v1, PyList(<<<<"Parameter", <<"number", 80>>>>>>)>>)

\* C8: the four-line sample parses to a Program of four statements: the
\* declaration of v1 with parameter length and an empty body, the call
\* v1 80, the conditional on x around that call, and 3 + 2.
C8_SampleProgram ==
    (source = SpecSample /\ ast # None)
    => /\ ast.name = "Program"
       /\ ast.children[1] # None
       /\ Len(ast.children[1].list) = 4
       /\ StatementKinds(ast) =
              <<"Declare function", "Call function", "IF", "MATH EXPRESSION">>
       /\ LET stmt == [k \in 1..4 |-> ast.children[1].list[k].value[1]]
          IN  /\ stmt[1].value[2] = Word_v1
              /\ stmt[1].value[3] =
                     PyList(<<<<"Parameter", <<"Identifier", Word_length>>>>>>)
              /\ stmt[1].value[4] = None
              /\ stmt[2] = CallV1
              /\ stmt[3].value[1] = Word_x
              /\ stmt[3].value[2] = PyList(<<new_leaf("Statement", <<CallV1>>)>>)
              /\ stmt[4].value[1] = <<"+">>
              /\ stmt[4].value[2] = new_leaf("Number", <<3>>)
              /\ stmt[4].value[3] = new_leaf("Number", <<2>>)

====
